---- MODULE Spec2Model ----
(***************************************************************************)
(* Sheet-to-table synchronisation of sheets-dialer-app:                    *)
(*   services/sheetsToSupabaseSync.js  (fetch, map, upsert, CLI entry)     *)
(*   web/pages/api/sync-sheets.js      (HTTP trigger)                      *)
(* The spreadsheet API, the record store and the wall clock are the        *)
(* environment; every await of the code is one step of a pass.             *)
(***************************************************************************)
EXTENDS Integers, Sequences, FiniteSets, TLC

VARIABLES
  config,         \* the environment values that are set (process.env)
  sheet,          \* the spreadsheet tab: [tab, rowCount, header, rows]
  sheetVer,       \* number of edits made to the sheet so far
  store,          \* the leads table: a sequence of rows (column -> value)
  now,            \* the last value the wall clock was read as
  budget,         \* number of invocations that may still be started
  pc,             \* per invocation: where the pass is suspended
  entry,          \* per invocation: "lib", "http" or "cli"
  method,         \* per invocation: HTTP method of the request (entry "http")
  opts,           \* per invocation: the options of syncSheetsToSupabase
  syncStartTime,  \* per invocation: local of syncSheetsToSupabase
  headerRow,      \* per invocation: local of fetchSheetData
  totalRows,      \* per invocation: local of fetchSheetData
  startRow,       \* per invocation: loop variable of fetchSheetData
  allData,        \* per invocation: local of fetchSheetData
  leads,          \* per invocation: local of syncSheetsToSupabase
  verAtFetch,     \* per invocation: sheetVer when fetchSheetData returned
  calls,          \* per invocation: the network calls issued by the pass
  errCalls,       \* per invocation: the errors onError was invoked with
  outcome,        \* per invocation: what syncSheetsToSupabase returned/threw
  httpRes,        \* per invocation: the HTTP response sent
  exitCode,       \* per invocation: process exit status (entry "cli")
  storeAtStart,   \* per invocation: the store when the pass started
  verAtStart,     \* per invocation: sheetVer when the pass started
  prevOk,         \* per invocation: lastOk when the pass started
  lastOk,         \* the last pass that returned success: [ver, opts, leads, header]
  mapIn,          \* mapper harness: [headerRow, dataRow, rowIndex, time]
  mapOut,         \* mapper harness: <<the record made>>, <<>> before the call
  dash            \* the state of the Dashboard component and its pending fetch

passVars == <<pc, entry, method, opts, syncStartTime, headerRow, totalRows,
              startRow, allData, leads, verAtFetch, calls, errCalls, outcome,
              httpRes, exitCode, storeAtStart, verAtStart, prevOk>>
envVars  == <<config, sheet, sheetVer, store, now, budget, lastOk>>
mapVars  == <<mapIn, mapOut>>
viewVars == <<dash>>
vars     == <<envVars, passVars, mapVars, viewVars>>

----------------------------------------------------------------------------
(* Bounds of the model *)

MaxPasses == 2      \* invocations started in one behaviour of SpecRepeat
MaxTime   == 1      \* the clock is read as 0..MaxTime
MaxEdits  == 1      \* edits made to the sheet in one behaviour

----------------------------------------------------------------------------
(* Values.  A JS string that the code takes apart (a header cell) is a       *)
(* sequence of one-character strings; every other string is a TLA+ string.  *)
(* JS null is the string below, which no cell holds.                        *)

Null == "<null>"

Upper == <<"A","B","C","D","E","F","G","H","I","J","K","L","M",
           "N","O","P","Q","R","S","T","U","V","W","X","Y","Z">>
Lower == <<"a","b","c","d","e","f","g","h","i","j","k","l","m",
           "n","o","p","q","r","s","t","u","v","w","x","y","z">>

\* String.prototype.toLowerCase on one character
LowerChar(c) ==
  IF \E i \in 1..Len(Upper) : Upper[i] = c
    THEN Lower[CHOOSE i \in 1..Len(Upper) : Upper[i] = c]
    ELSE c

toLowerCase(s) == [i \in 1..Len(s) |-> LowerChar(s[i])]

\* the class \s of the regular expression, on the characters the model has
IsSpace(c) == c \in {" ", "\t"}

RECURSIVE SkipSpaces(_)
SkipSpaces(s) ==
  IF s # <<>> /\ IsSpace(Head(s)) THEN SkipSpaces(Tail(s)) ELSE s

\* s.replace(/\s+/g, '_'): every maximal run of whitespace becomes one "_"
RECURSIVE replaceWhitespace(_)
replaceWhitespace(s) ==
  IF s = <<>> THEN <<>>
  ELSE IF IsSpace(Head(s)) THEN <<"_">> \o replaceWhitespace(SkipSpaces(s))
  ELSE <<Head(s)>> \o replaceWhitespace(Tail(s))

\* the characters of a JS string as one TLA+ string (a property key)
RECURSIVE Join(_)
Join(s) == IF s = <<>> THEN "" ELSE Head(s) \o Join(Tail(s))

\* header.toLowerCase().replace(/\s+/g, '_')
fieldName(header) == Join(replaceWhitespace(toLowerCase(header)))

\* String(rowIndex)
String(n) == ToString(n)

\* new Date(t).toISOString(), t the clock reading
toISOString(t) == "T" \o ToString(t)

----------------------------------------------------------------------------
(* mapSheetRowToLeadObject.  `time` is the value new Date() reads inside.   *)

\* MapColumns never overwriting a key the record already has
RECURSIVE MapColumnsKeepFirst(_, _, _, _)
MapColumnsKeepFirst(lead, hRow, dataRow, k) ==
  IF k > Len(hRow) THEN lead
  ELSE MapColumnsKeepFirst(
         lead @@ (fieldName(hRow[k]) :>
                    (IF k <= Len(dataRow) THEN dataRow[k] ELSE Null)),
         hRow, dataRow, k + 1)

\* MapColumns giving the cells beyond the header row keys of their own
RECURSIVE MapColumnsKeepExtra(_, _, _, _)
MapColumnsKeepExtra(lead, hRow, dataRow, k) ==
  IF k > Len(hRow) /\ k > Len(dataRow) THEN lead
  ELSE MapColumnsKeepExtra(
         ((IF k <= Len(hRow) THEN fieldName(hRow[k]) ELSE "column_" \o ToString(k)) :>
            (IF k <= Len(dataRow) THEN dataRow[k] ELSE Null)) @@ lead,
         hRow, dataRow, k + 1)

\* the forEach body: lead[fieldName] = index < dataRow.length ? cell : null
RECURSIVE MapColumns(_, _, _, _)
MapColumns(lead, hRow, dataRow, k) ==
  IF k > Len(hRow) THEN lead
  ELSE MapColumns(
         (fieldName(hRow[k]) :>
            (IF k <= Len(dataRow) THEN dataRow[k] ELSE Null)) @@ lead,
         hRow, dataRow, k + 1)

mapSheetRowToLeadObject(hRow, dataRow, rowIndex, time) ==
  MapColumns([sheet_row_id |-> String(rowIndex),
              last_sync    |-> toISOString(time)],
             hRow, dataRow, 1)

----------------------------------------------------------------------------
(* The spreadsheet.  Row 1 is the header row, rows[i] is sheet row i + 1.   *)
(* A row is held without its trailing empty cells and the grid without its  *)
(* trailing empty rows, the way spreadsheets.values.get reports them.       *)

HName         == <<"N","a","m","e">>
HEmail        == <<"E","m","a","i","l">>
HFullName     == <<"F","u","l","l"," ","N","a","m","e">>
HFullNameWide == <<"f","u","l","l"," ","\t","n","a","m","e">>
HSheetRowId   == <<"S","h","e","e","t"," ","R","o","w"," ","I","D">>
HLastSync     == <<"L","a","s","t"," ","S","y","n","c">>

HeaderRows == { <<>>,
                <<HName, HEmail>>,
                <<HName, HSheetRowId>> }

DataRows == { <<>>, <<"a">>, <<"a", "b">>, <<"b", "a">> }

MaxDataRows == 2    \* data rows a sheet holds

RowSeqs ==
  { r \in UNION { [1..n -> DataRows] : n \in 0..MaxDataRows } :
      r = <<>> \/ r[Len(r)] # <<>> }

\* gridProperties.rowCount: the grid ends at the last data row or has
\* one spare row below it
Sheets ==
  { [tab |-> TRUE, rowCount |-> Len(r) + 1 + spare, header |-> h, rows |-> r] :
      h \in HeaderRows, r \in RowSeqs, spare \in {0, 1} }

RECURSIVE TrimEmptyRows(_)
TrimEmptyRows(rs) ==
  IF rs # <<>> /\ rs[Len(rs)] = <<>>
    THEN TrimEmptyRows(SubSeq(rs, 1, Len(rs) - 1))
    ELSE rs

\* one edit by a user of the spreadsheet: the last column is removed, the
\* last data row is rewritten or cleared, the tab is deleted
Edits(s) ==
       { [s EXCEPT !.header = SubSeq(s.header, 1, Len(s.header) - 1)] : x \in
           IF s.header = <<>> THEN {} ELSE {1} }
  \cup { [s EXCEPT !.rows = TrimEmptyRows(SubSeq(s.rows, 1, Len(s.rows) - 1) \o <<r>>)] :
           r \in IF s.rows = <<>> THEN {}
                 ELSE {<<>>, <<"b", "a">>} \ {s.rows[Len(s.rows)]} }
  \cup { [s EXCEPT !.tab = FALSE] : x \in IF s.tab THEN {1} ELSE {} }

Min(a, b) == IF a <= b THEN a ELSE b

\* response.data of spreadsheets.values.get: `values` is left out (defined
\* = FALSE) when the range holds no value
NoValues == [defined |-> FALSE, values |-> <<>>]

\* the read of rows from..to (from >= 2) of the tab
RangeValues(s, from, to) ==
  LET rs == TrimEmptyRows(SubSeq(s.rows, from - 1, Min(to - 1, Len(s.rows))))
  IN  IF rs = <<>> THEN NoValues ELSE [defined |-> TRUE, values |-> rs]

\* the A1:Z1 read.  An empty row 1 comes back with no `values` member or,
\* from a stubbed client, with an empty list.
HeaderValues(s) ==
  IF s.header = <<>>
    THEN {NoValues, [defined |-> TRUE, values |-> <<>>]}
    ELSE {[defined |-> TRUE, values |-> <<s.header>>]}

----------------------------------------------------------------------------
(* The leads table behind supabase.from('leads').upsert(leads,              *)
(* {onConflict: 'sheet_row_id'}): sheet_row_id is a unique, nullable text   *)
(* column.  A row is the function from the columns written to their values. *)

RowWith(table, id) == CHOOSE i \in 1..Len(table) : table[i].sheet_row_id = id

\* a write that replaces the table by the payload
UpsertReplacing(table, payload) == payload

\* a write made with ignoreDuplicates: a stored row is never overwritten
RECURSIVE UpsertIgnoreDuplicates(_, _)
UpsertIgnoreDuplicates(table, payload) ==
  IF payload = <<>> THEN table
  ELSE LET lead == Head(payload)
           id   == lead.sheet_row_id
       IN  IF id # Null /\ \E i \in 1..Len(table) : table[i].sheet_row_id = id
             THEN UpsertIgnoreDuplicates(table, Tail(payload))
             ELSE UpsertIgnoreDuplicates(Append(table, lead), Tail(payload))

\* a write that puts the payload's record in the place of the stored row
RECURSIVE UpsertWholeRow(_, _)
UpsertWholeRow(table, payload) ==
  IF payload = <<>> THEN table
  ELSE LET lead == Head(payload)
           id   == lead.sheet_row_id
       IN  IF id # Null /\ \E i \in 1..Len(table) : table[i].sheet_row_id = id
             THEN UpsertWholeRow(
                    [table EXCEPT ![CHOOSE i \in 1..Len(table) :
                                      table[i].sheet_row_id = id] = lead],
                    Tail(payload))
             ELSE UpsertWholeRow(Append(table, lead), Tail(payload))

\* INSERT ... ON CONFLICT (sheet_row_id) DO UPDATE SET <payload columns>:
\* a NULL key conflicts with nothing; only the payload's columns are written
RECURSIVE Upsert(_, _)
Upsert(table, payload) ==
  IF payload = <<>> THEN table
  ELSE LET lead == Head(payload)
           id   == lead.sheet_row_id
       IN  IF id # Null /\ \E i \in 1..Len(table) : table[i].sheet_row_id = id
             THEN Upsert([table EXCEPT ![RowWith(table, id)] = lead @@ @],
                         Tail(payload))
             ELSE Upsert(Append(table, lead), Tail(payload))

\* the statement is rejected when two rows of the payload hit the same key
PayloadRejected(payload) ==
  \E i, j \in 1..Len(payload) :
    /\ i < j
    /\ payload[i].sheet_row_id # Null
    /\ payload[i].sheet_row_id = payload[j].sheet_row_id

----------------------------------------------------------------------------
(* Invocations.  "A" and "B" are two slots in which the sync can be run:    *)
(* programmatically ("lib"), by the HTTP route ("http") or by running the   *)
(* module directly ("cli").                                                 *)

Procs == {"A", "B"}

\* the environment values the module reads
requiredEnvVars ==
  {"GOOGLE_SERVICE_ACCOUNT_EMAIL", "GOOGLE_PRIVATE_KEY", "GOOGLE_SHEET_ID",
   "SUPABASE_URL", "SUPABASE_SERVICE_ROLE_KEY"}

\* loading the module: each missing value is logged with console.error
LoadModule(cfg) == [threw |-> FALSE, logged |-> requiredEnvVars \ cfg]

\* getGoogleSheetsClient() returns: GOOGLE_PRIVATE_KEY.replace(...) needs the key
SheetsClientMade(cfg) == "GOOGLE_PRIVATE_KEY" \in cfg

\* the Sheets API accepts a request: it is signed for the service account
\* and names the spreadsheet
SheetsRequestAccepted(cfg) ==
  {"GOOGLE_SERVICE_ACCOUNT_EMAIL", "GOOGLE_SHEET_ID"} \subseteq cfg

\* getSupabaseClient() returns: createClient throws without its URL or key
StoreClientMade(cfg) == {"SUPABASE_URL", "SUPABASE_SERVICE_ROLE_KEY"} \subseteq cfg

DefaultBatchSize == 50

\* onError = (err) => console.error('Sync error:', err)
DefaultOptions ==
  [batchSize |-> DefaultBatchSize, onError |-> "default", forceFullSync |-> FALSE]

BatchSizes   == {1, 2, DefaultBatchSize}
\* a caller's own options: its onError callback is any unary function
LibOptions   == [batchSize : BatchSizes, onError : {"custom"}, forceFullSync : {FALSE}]
\* the same options with forceFullSync given as well
FlagOptions  == [batchSize : BatchSizes, onError : {"custom"}, forceFullSync : BOOLEAN]

Methods == {"GET", "POST", "PUT", "DELETE"}

ErrApi       == "Request failed"                      \* thrown by googleapis
ErrNoHeader  == "Could not find header row in sheet"
ErrTypeError == "Cannot read properties of undefined" \* a TypeError
ErrStore     == "upsert failed"                       \* error of the store
ErrCallback  == "thrown by onError"
ErrStoreClient == "supabaseUrl is required."         \* thrown by createClient

NoOutcome == [kind |-> "none"]
NoRes     == [status |-> 0]
NoExit    == 0 - 1
NoPass    == [ver |-> -1]

\* the range of a ranged read, as logged in calls
RangeCall(from, to) == [op |-> "range", from |-> from, to |-> to]

----------------------------------------------------------------------------
(* What the caller does with the settled promise of syncSheetsToSupabase.   *)

\* Respond sending the failure payload without status(500)
RespondNoStatus(o) ==
  IF o.kind = "threw"
    THEN [status |-> 500,
          body   |-> [error |-> "Unexpected error during sync", message |-> o.error]]
  ELSE IF ~o.result.success
    THEN [status |-> 200,
          body   |-> [error |-> "Sync failed", details |-> o.result.error]]
  ELSE [status |-> 200,
        body   |-> [success |-> TRUE,
                    message |-> "Successfully synced "
                                  \o ToString(o.result.rowsProcessed) \o " leads"]
                   @@ o.result]

\* pages/api/sync-sheets.js, from the await on
Respond(o) ==
  IF o.kind = "threw"
    THEN [status |-> 500,
          body   |-> [error |-> "Unexpected error during sync", message |-> o.error]]
  ELSE IF ~o.result.success
    THEN [status |-> 500,
          body   |-> [error |-> "Sync failed", details |-> o.result.error]]
  ELSE [status |-> 200,
        body   |-> [success |-> TRUE,
                    message |-> "Successfully synced "
                                  \o ToString(o.result.rowsProcessed) \o " leads"]
                   @@ o.result]   \* the keys of ...result agree on success

\* the .then / .catch of the require.main === module block
ExitStatus(o) == IF o.kind = "threw" THEN 1 ELSE 0

\* the promise settles with o and the caller of slot p runs on
Settle(p, o) ==
  /\ outcome'  = [outcome EXCEPT ![p] = o]
  /\ httpRes'  = [httpRes EXCEPT ![p] = IF entry[p] = "http" THEN Respond(o) ELSE @]
  /\ exitCode' = [exitCode EXCEPT ![p] = IF entry[p] = "cli" THEN ExitStatus(o) ELSE @]
  /\ pc'       = [pc EXCEPT ![p] = "done"]

----------------------------------------------------------------------------
(* The steps of syncSheetsToSupabase.  Each operator below constrains       *)
(* pc, calls, leads, errCalls, outcome, httpRes, exitCode, now and lastOk.  *)

\* Suspend sending the request a second time without awaiting the first
SuspendTwice(p, label, call) ==
  /\ pc'    = [pc EXCEPT ![p] = label]
  /\ calls' = [calls EXCEPT ![p] = Append(Append(@, call), call)]
  /\ UNCHANGED <<leads, verAtFetch, errCalls, outcome, httpRes, exitCode, now, lastOk>>

\* a request is issued and the pass is suspended on it
Suspend(p, label, call) ==
  /\ pc'    = [pc EXCEPT ![p] = label]
  /\ calls' = [calls EXCEPT ![p] = Append(@, call)]
  /\ UNCHANGED <<leads, verAtFetch, errCalls, outcome, httpRes, exitCode, now, lastOk>>

\* what calling onError can do: console.error returns, a caller's callback
\* returns or throws
OnErrorThrows(kind) == IF kind = "default" THEN {FALSE} ELSE {FALSE, TRUE}

\* Catch sending the failed request once more before giving up
CatchRetry(p, err) ==
  /\ errCalls' = [errCalls EXCEPT ![p] = Append(@, err)]
  /\ IF errCalls[p] = <<>>
       THEN /\ calls' = [calls EXCEPT ![p] = Append(@, @[Len(@)])]
            /\ UNCHANGED <<pc, outcome, httpRes, exitCode, now>>
       ELSE /\ Settle(p, [kind   |-> "returned",
                          result |-> [success       |-> FALSE,
                                      syncStartTime |-> syncStartTime[p],
                                      syncEndTime   |-> toISOString(now),
                                      error         |-> err]])
            /\ UNCHANGED <<calls, now>>
  /\ UNCHANGED <<leads, verAtFetch, lastOk>>

\* the catch block of syncSheetsToSupabase: onError(error), then the
\* failure result; a callback that throws leaves through the promise
Catch(p, err) ==
  /\ errCalls' = [errCalls EXCEPT ![p] = Append(@, err)]
  /\ \E throws \in OnErrorThrows(opts[p].onError) :
       IF throws
         THEN /\ Settle(p, [kind |-> "threw", error |-> ErrCallback])
              /\ now' = now
         ELSE \E t \in now..MaxTime :
                /\ now' = t
                /\ Settle(p, [kind   |-> "returned",
                              result |-> [success       |-> FALSE,
                                          syncStartTime |-> syncStartTime[p],
                                          syncEndTime   |-> toISOString(t),
                                          error         |-> err]])
  /\ UNCHANGED <<calls, leads, verAtFetch, lastOk>>

\* the clock readings of n successive new Date() calls
Readings(n) ==
  { ts \in [1..n -> now..MaxTime] : \A i \in 1..(n - 1) : ts[i] <= ts[i + 1] }

\* sheetData.map(...) of syncSheetsToSupabase, ts[i] the clock as record i is made
MapAll(data, ts) ==
  [i \in 1..Len(data) |->
     mapSheetRowToLeadObject(data[i].headerRow, data[i].dataRow,
                             data[i].rowIndex, ts[i])]

\* FetchDone writing no more than batchSize records
FetchDoneOneBatch(p, data) ==
  LET d == SubSeq(data, 1, Min(opts[p].batchSize, Len(data)))
  IN  \E ts \in Readings(Len(d)) :
        /\ leads' = [leads EXCEPT ![p] = MapAll(d, ts)]
        /\ verAtFetch' = [verAtFetch EXCEPT ![p] = sheetVer]
        /\ now'   = IF d = <<>> THEN now ELSE ts[Len(d)]
        /\ calls' = [calls EXCEPT ![p] = Append(@, [op |-> "upsert", n |-> Len(d)])]
        /\ pc'    = [pc EXCEPT ![p] = "write"]
        /\ UNCHANGED <<errCalls, outcome, httpRes, exitCode, lastOk>>

\* FetchDone returning at once, without a write, when there is nothing to
\* write
FetchDoneSkipEmpty(p, data) ==
  IF data = <<>>
    THEN /\ leads' = [leads EXCEPT ![p] = <<>>]
         /\ verAtFetch' = [verAtFetch EXCEPT ![p] = sheetVer]
         /\ Settle(p, [kind   |-> "returned",
                       result |-> [success       |-> TRUE,
                                   syncStartTime |-> syncStartTime[p],
                                   syncEndTime   |-> toISOString(now),
                                   rowsProcessed |-> 0]])
         /\ UNCHANGED <<calls, errCalls, now, lastOk>>
    ELSE \E ts \in Readings(Len(data)) :
           /\ leads' = [leads EXCEPT ![p] = MapAll(data, ts)]
           /\ verAtFetch' = [verAtFetch EXCEPT ![p] = sheetVer]
           /\ now'   = ts[Len(data)]
           /\ calls' = [calls EXCEPT ![p] =
                          Append(@, [op |-> "upsert", n |-> Len(data)])]
           /\ pc'    = [pc EXCEPT ![p] = "write"]
           /\ UNCHANGED <<errCalls, outcome, httpRes, exitCode, lastOk>>

\* fetchSheetData returned data: map it, make the store client and issue
\* the one upsert
FetchDone(p, data) ==
  \E ts \in Readings(Len(data)) :
    /\ leads' = [leads EXCEPT ![p] = MapAll(data, ts)]
    /\ verAtFetch' = [verAtFetch EXCEPT ![p] = sheetVer]
    /\ now'   = IF data = <<>> THEN now ELSE ts[Len(data)]
    /\ IF StoreClientMade(config)
         THEN /\ calls' = [calls EXCEPT ![p] =
                             Append(@, [op |-> "upsert", n |-> Len(data)])]
              /\ pc'    = [pc EXCEPT ![p] = "write"]
         ELSE /\ calls' = calls
              /\ pc'    = [pc EXCEPT ![p] = "noclient"]
    /\ UNCHANGED <<errCalls, outcome, httpRes, exitCode, lastOk>>

\* LoopHead writing what it has before each further read
LoopHeadFlush(p, from, total, data) ==
  IF from < total
    THEN /\ pc'    = [pc EXCEPT ![p] = "batch"]
         /\ leads' = [leads EXCEPT ![p] = MapAll(data, [i \in 1..Len(data) |-> now])]
         /\ verAtFetch' = verAtFetch
         /\ calls' = [calls EXCEPT ![p] =
                        @ \o (IF data = <<>> THEN <<>>
                              ELSE <<[op |-> "upsert", n |-> Len(data)]>>)
                          \o <<RangeCall(from, Min(from + opts[p].batchSize - 1, total))>>]
         /\ UNCHANGED <<errCalls, outcome, httpRes, exitCode, now, lastOk>>
    ELSE FetchDone(p, data)

\* LoopHead reading rows only when forceFullSync is set
LoopHeadIncremental(p, from, total, data) ==
  IF from < total /\ opts[p].forceFullSync
    THEN Suspend(p, "batch",
                 RangeCall(from, Min(from + opts[p].batchSize - 1, total)))
    ELSE FetchDone(p, data)

\* the head of the for loop: for (...; startRow < totalRows; ...)
LoopHead(p, from, total, data) ==
  IF from < total
    THEN Suspend(p, "batch",
                 RangeCall(from, Min(from + opts[p].batchSize - 1, total)))
    ELSE FetchDone(p, data)

\* the rows of one batch, as pushed onto allData
BatchItems(hRow, rows, from) ==
  [i \in 1..Len(rows) |->
     [headerRow |-> hRow, dataRow |-> rows[i], rowIndex |-> from + (i - 1)]]

\* the request the pass is suspended on
InFlight(p) == calls[p][Len(calls[p])]

\* the try block ran to its return: the success result
ReturnOk(p) ==
  \E t \in now..MaxTime :
    /\ now' = t
    /\ Settle(p, [kind   |-> "returned",
                  result |-> [success       |-> TRUE,
                              syncStartTime |-> syncStartTime[p],
                              syncEndTime   |-> toISOString(t),
                              rowsProcessed |-> Len(leads[p])]])
    /\ lastOk' = [ver   |-> IF sheetVer = verAtStart[p] THEN sheetVer ELSE -1,
                  opts  |-> opts[p],
                  leads |-> leads[p],
                  header |-> headerRow[p]]
    /\ UNCHANGED <<calls, leads, verAtFetch, errCalls>>

----------------------------------------------------------------------------
(* Actions *)

\* slot p is free for another invocation
Free(p) == pc[p] \in {"idle", "done"} /\ budget > 0

\* syncSheetsToSupabase(o) is called by caller e: the function runs up to
\* the await of the header read
Begin(p, e, m, o) ==
  /\ Free(p)
  /\ budget' = budget - 1
  /\ entry'  = [entry EXCEPT ![p] = e]
  /\ method' = [method EXCEPT ![p] = m]
  /\ opts'   = [opts EXCEPT ![p] = o]
  /\ \E t \in now..MaxTime :
       /\ now' = t
       /\ syncStartTime' = [syncStartTime EXCEPT ![p] = toISOString(t)]
  /\ headerRow' = [headerRow EXCEPT ![p] = <<>>]
  /\ totalRows' = [totalRows EXCEPT ![p] = 0]
  /\ startRow'  = [startRow EXCEPT ![p] = 0]
  /\ allData'   = [allData EXCEPT ![p] = <<>>]
  /\ leads'     = [leads EXCEPT ![p] = <<>>]
  /\ verAtFetch' = [verAtFetch EXCEPT ![p] = -1]
  /\ calls'     = [calls EXCEPT ![p] =
                      IF SheetsClientMade(config) THEN <<[op |-> "header"]>> ELSE <<>>]
  /\ errCalls'  = [errCalls EXCEPT ![p] = <<>>]
  /\ outcome'   = [outcome EXCEPT ![p] = NoOutcome]
  /\ httpRes'   = [httpRes EXCEPT ![p] = NoRes]
  /\ exitCode'  = [exitCode EXCEPT ![p] = NoExit]
  /\ storeAtStart' = [storeAtStart EXCEPT ![p] = store]
  /\ verAtStart'   = [verAtStart EXCEPT ![p] = sheetVer]
  /\ prevOk'       = [prevOk EXCEPT ![p] = lastOk]
  /\ pc' = [pc EXCEPT ![p] = IF SheetsClientMade(config) THEN "header" ELSE "noclient"]
  /\ UNCHANGED <<config, sheet, sheetVer, store, lastOk, mapVars, viewVars>>

\* a program calls the exported syncSheetsToSupabase with its own options
LibCall(p) == \E o \in LibOptions : Begin(p, "lib", "", o)

\* the same call made twice, one after the other: in slot "A" without
\* forceFullSync, then in slot "B" with it
FlagCall(p) ==
  \E o \in FlagOptions :
    /\ o.forceFullSync = (p = "B")
    /\ p = "B" => /\ pc["A"] = "done"
                  /\ [o EXCEPT !.forceFullSync = FALSE] = opts["A"]
    /\ pc[p] = "idle"
    /\ Begin(p, "lib", "", o)

\* node services/sheetsToSupabaseSync.js
CliRun(p) == Begin(p, "cli", "", DefaultOptions)

\* the gate letting PUT through as well
MethodAllowedLoose(m) == m # "DELETE"

\* the method gate of the API route
MethodAllowed(m) == m = "POST" \/ m = "GET"

\* a request to /api/sync-sheets with an allowed method
HttpSync(p) ==
  \E m \in Methods : MethodAllowed(m) /\ Begin(p, "http", m, DefaultOptions)

\* a request with any other method: 405, and the handler returns
HttpReject(p) ==
  \E m \in Methods :
    /\ ~MethodAllowed(m)
    /\ Free(p)
    /\ budget' = budget - 1
    /\ entry'  = [entry EXCEPT ![p] = "http"]
    /\ method' = [method EXCEPT ![p] = m]
    /\ httpRes' = [httpRes EXCEPT ![p] =
                     [status |-> 405, body |-> [error |-> "Method not allowed"]]]
    /\ opts'      = [opts EXCEPT ![p] = DefaultOptions]
    /\ headerRow' = [headerRow EXCEPT ![p] = <<>>]
    /\ totalRows' = [totalRows EXCEPT ![p] = 0]
    /\ startRow'  = [startRow EXCEPT ![p] = 0]
    /\ allData'   = [allData EXCEPT ![p] = <<>>]
    /\ leads'     = [leads EXCEPT ![p] = <<>>]
    /\ verAtFetch' = [verAtFetch EXCEPT ![p] = -1]
    /\ calls'     = [calls EXCEPT ![p] = <<>>]
    /\ errCalls'  = [errCalls EXCEPT ![p] = <<>>]
    /\ outcome'   = [outcome EXCEPT ![p] = NoOutcome]
    /\ exitCode'  = [exitCode EXCEPT ![p] = NoExit]
    /\ storeAtStart' = [storeAtStart EXCEPT ![p] = store]
    /\ verAtStart'   = [verAtStart EXCEPT ![p] = sheetVer]
    /\ prevOk'       = [prevOk EXCEPT ![p] = lastOk]
    /\ pc' = [pc EXCEPT ![p] = "done"]
    /\ UNCHANGED <<config, sheet, sheetVer, store, now, lastOk, syncStartTime, mapVars, viewVars>>

\* a client could not be made: the exception of getGoogleSheetsClient or
\* getSupabaseClient reaches the catch block
ClientFailure(p) ==
  /\ pc[p] = "noclient"
  /\ Catch(p, IF calls[p] = <<>> THEN ErrTypeError ELSE ErrStoreClient)
  /\ UNCHANGED <<config, sheet, sheetVer, store, budget, entry, method, opts,
                 syncStartTime, headerRow, totalRows, startRow, allData,
                 storeAtStart, verAtStart, prevOk, mapVars, viewVars>>

\* the header read settles
HeaderResponse(p) ==
  /\ pc[p] = "header"
  /\ \/ /\ Catch(p, ErrApi)                 \* the request throws
        /\ UNCHANGED headerRow
     \/ /\ sheet.tab
        /\ SheetsRequestAccepted(config)
        /\ \E r \in HeaderValues(sheet) :
             IF ~r.defined
               THEN Catch(p, ErrTypeError) /\ UNCHANGED headerRow  \* values[0]
             ELSE IF r.values = <<>>
               THEN Catch(p, ErrNoHeader) /\ UNCHANGED headerRow   \* !headerRow
             ELSE /\ headerRow' = [headerRow EXCEPT ![p] = r.values[1]]
                  /\ Suspend(p, "meta", [op |-> "meta"])
  /\ UNCHANGED <<config, sheet, sheetVer, store, budget, entry, method, opts,
                 syncStartTime, totalRows, startRow, allData,
                 storeAtStart, verAtStart, prevOk, mapVars, viewVars>>

\* the metadata read settles
MetadataResponse(p) ==
  /\ pc[p] = "meta"
  /\ \/ /\ Catch(p, ErrApi)
        /\ UNCHANGED <<totalRows, startRow>>
     \/ /\ ~sheet.tab                       \* find(...) is undefined
        /\ Catch(p, ErrTypeError)
        /\ UNCHANGED <<totalRows, startRow>>
     \/ /\ sheet.tab
        /\ totalRows' = [totalRows EXCEPT ![p] = sheet.rowCount]
        /\ startRow'  = [startRow EXCEPT ![p] = 2]
        /\ LoopHead(p, 2, sheet.rowCount, <<>>)
  /\ UNCHANGED <<config, sheet, sheetVer, store, budget, entry, method, opts,
                 syncStartTime, headerRow, allData,
                 storeAtStart, verAtStart, prevOk, mapVars, viewVars>>

\* a ranged data read settles
BatchResponse(p) ==
  /\ pc[p] = "batch"
  /\ \/ /\ Catch(p, ErrApi)
        /\ UNCHANGED <<startRow, allData>>
     \/ /\ sheet.tab
        /\ LET r    == RangeValues(sheet, InFlight(p).from, InFlight(p).to)
               rows == IF r.defined THEN r.values ELSE <<>>   \* values || []
               data == allData[p] \o BatchItems(headerRow[p], rows, startRow[p])
               next == startRow[p] + opts[p].batchSize
           IN  IF rows = <<>>
                 THEN /\ FetchDone(p, allData[p])             \* break
                      /\ UNCHANGED <<startRow, allData>>
                 ELSE /\ allData'  = [allData EXCEPT ![p] = data]
                      /\ startRow' = [startRow EXCEPT ![p] = next]
                      /\ LoopHead(p, next, totalRows[p], data)
  /\ UNCHANGED <<config, sheet, sheetVer, store, budget, entry, method, opts,
                 syncStartTime, headerRow, totalRows,
                 storeAtStart, verAtStart, prevOk, mapVars, viewVars>>

\* the upsert settles
UpsertResponse(p) ==
  /\ pc[p] = "write"
  /\ \/ /\ Catch(p, ErrStore)               \* { error } or a thrown error
        /\ UNCHANGED store
     \/ /\ ~PayloadRejected(leads[p])
        /\ store' = Upsert(store, leads[p])
        /\ ReturnOk(p)
  /\ UNCHANGED <<config, sheet, sheetVer, budget, entry, method, opts,
                 syncStartTime, headerRow, totalRows, startRow, allData,
                 storeAtStart, verAtStart, prevOk, mapVars, viewVars>>

\* somebody edits the spreadsheet
EditSheet ==
  /\ sheetVer < MaxEdits
  /\ sheet' \in Edits(sheet)
  /\ sheetVer' = sheetVer + 1
  /\ UNCHANGED <<config, store, now, budget, lastOk, passVars, mapVars, viewVars>>

----------------------------------------------------------------------------
(* The mapper on its own: the inputs are drawn at the start and             *)
(* mapSheetRowToLeadObject is applied to them.                              *)

MapHeaders == {HName, HEmail, HFullName, HFullNameWide, HSheetRowId, HLastSync}
MapCells   == {"a", "b"}
MaxHeaderLen == 2
MaxRowLen    == 3

SeqsUpTo(S, n) == UNION { [1..k -> S] : k \in 0..n }

MapInputs ==
  [headerRow : SeqsUpTo(MapHeaders, MaxHeaderLen),
   dataRow   : SeqsUpTo(MapCells, MaxRowLen),
   rowIndex  : 2..3,
   time      : 0..1]

MapApply ==
  /\ mapOut = <<>>
  /\ mapOut' = <<mapSheetRowToLeadObject(mapIn.headerRow, mapIn.dataRow,
                                         mapIn.rowIndex, mapIn.time)>>
  /\ UNCHANGED <<mapIn, envVars, passVars, viewVars>>

----------------------------------------------------------------------------
(* Specifications *)

IdleMap == [headerRow |-> <<>>, dataRow |-> <<>>, rowIndex |-> 2, time |-> 0]

InitPass(running) ==
  /\ pc     = [p \in Procs |-> IF p \in running THEN "idle" ELSE "off"]
  /\ entry  = [p \in Procs |-> "lib"]
  /\ method = [p \in Procs |-> ""]
  /\ opts   = [p \in Procs |-> DefaultOptions]
  /\ syncStartTime = [p \in Procs |-> ""]
  /\ headerRow = [p \in Procs |-> <<>>]
  /\ totalRows = [p \in Procs |-> 0]
  /\ startRow  = [p \in Procs |-> 0]
  /\ allData   = [p \in Procs |-> <<>>]
  /\ leads     = [p \in Procs |-> <<>>]
  /\ verAtFetch = [p \in Procs |-> -1]
  /\ calls     = [p \in Procs |-> <<>>]
  /\ errCalls  = [p \in Procs |-> <<>>]
  /\ outcome   = [p \in Procs |-> NoOutcome]
  /\ httpRes   = [p \in Procs |-> NoRes]
  /\ exitCode  = [p \in Procs |-> NoExit]
  /\ storeAtStart = [p \in Procs |-> <<>>]
  /\ verAtStart   = [p \in Procs |-> 0]
  /\ prevOk       = [p \in Procs |-> NoPass]

\* rows left by earlier syncs: sheet row 2 with a column the sheet has no
\* more, and a row whose sheet row is gone
OldRow(id) ==
  [sheet_row_id |-> id, last_sync |-> toISOString(0), name |-> "old", notes |-> "kept"]

InitialStores == { <<>>, <<OldRow("2"), OldRow("9")>> }

InitEnv(n) ==
  /\ config = requiredEnvVars
  /\ sheet \in Sheets
  /\ sheetVer = 0
  /\ store \in InitialStores
  /\ now = 0
  /\ budget = n
  /\ lastOk = NoPass

----------------------------------------------------------------------------
(* The Dashboard component.  dash holds its state: the pagination object,  *)
(* loading, leads and error, whether its first effect has run, the fetch   *)
(* it awaits, and the count the latest successful fetch returned.  A click  *)
(* is taken with the render and the effect it causes, so a fetch starts in *)
(* the step of the click that changed the page.                            *)

DefaultPageSize == 10

Ceil(a, b) == (a + b - 1) \div b

NoRequest == [pending |-> FALSE]

\* the state of the first render, before its effect has run
Unmounted ==
  [pagination |-> [page |-> 1, pageSize |-> DefaultPageSize, totalCount |-> 0],
   loading    |-> TRUE,
   leads      |-> <<>>,
   error      |-> FALSE,
   mounted    |-> FALSE,
   request    |-> NoRequest,
   lastCount  |-> 0 - 1]

\* Math.ceil(pagination.totalCount / pagination.pageSize)
totalPages(d) == Ceil(d.pagination.totalCount, d.pagination.pageSize)

\* fetchLeads up to its await: setLoading(true) and the ranged select, which
\* keeps the pagination object of the render it was made in
fetchLeads(d) ==
  LET from == (d.pagination.page - 1) * d.pagination.pageSize
      to   == from + d.pagination.pageSize - 1
  IN  [d EXCEPT !.loading = TRUE,
                !.request = [pending    |-> TRUE,
                             from       |-> from,
                             to         |-> to,
                             pagination |-> d.pagination]]

\* the rows from..to (counted from 0) of the table
RangeOfStore(from, to) ==
  IF from >= Len(store) THEN <<>>
  ELSE SubSeq(store, from + 1, Min(to + 1, Len(store)))

\* the pagination buttons are rendered
PaginationShown(d) == d.mounted /\ ~d.loading /\ Len(d.leads) > 0

\* Next never being disabled
NextDisabledNever(d) == FALSE

PreviousDisabled(d) == d.pagination.page = 1
NextDisabled(d)     == d.pagination.page >= totalPages(d)

\* handlePageChange, then the effect run by the change of pagination.page
handlePageChange(newPage) ==
  /\ dash' = fetchLeads([dash EXCEPT !.pagination.page = newPage])
  /\ UNCHANGED <<envVars, passVars, mapVars>>

\* the effect of the first render
Mount ==
  /\ ~dash.mounted
  /\ dash' = fetchLeads([dash EXCEPT !.mounted = TRUE])
  /\ UNCHANGED <<envVars, passVars, mapVars>>

ClickPrevious ==
  /\ PaginationShown(dash)
  /\ ~PreviousDisabled(dash)
  /\ handlePageChange(dash.pagination.page - 1)

ClickNext ==
  /\ PaginationShown(dash)
  /\ ~NextDisabled(dash)
  /\ handlePageChange(dash.pagination.page + 1)

\* the select settles: with an error, or with the rows of the range and
\* the exact count of the table
FetchLeadsResponse ==
  /\ dash.request.pending
  /\ \/ dash' = [dash EXCEPT !.error   = TRUE,
                             !.loading = FALSE,
                             !.request = NoRequest]
     \/ dash' = [dash EXCEPT
                   !.leads      = RangeOfStore(dash.request.from, dash.request.to),
                   !.pagination = [dash.request.pagination EXCEPT
                                     !.totalCount = Len(store)],
                   !.lastCount  = Len(store),
                   !.loading    = FALSE,
                   !.request    = NoRequest]
  /\ UNCHANGED <<envVars, passVars, mapVars>>

NoMap ==
  /\ mapIn = IdleMap
  /\ mapOut = <<>>
  /\ dash = Unmounted

Responses ==
  \/ \E p \in Procs : HeaderResponse(p)
  \/ \E p \in Procs : MetadataResponse(p)
  \/ \E p \in Procs : BatchResponse(p)
  \/ \E p \in Procs : UpsertResponse(p)

\* one programmatic invocation, in slot "A"
Init == InitEnv(1) /\ InitPass({"A"}) /\ NoMap

Next ==
  \/ \E p \in Procs : LibCall(p)
  \/ Responses

Spec == Init /\ [][Next]_vars

\* one invocation by a trigger: an HTTP request or the command line
NextTrigger ==
  \/ \E p \in Procs : CliRun(p)
  \/ \E p \in Procs : HttpSync(p)
  \/ \E p \in Procs : HttpReject(p)
  \/ Responses

SpecTrigger == Init /\ [][NextTrigger]_vars

\* invocations one after the other, the sheet being edited meanwhile
InitRepeat == InitEnv(MaxPasses) /\ store = <<>> /\ InitPass({"A"}) /\ NoMap

NextRepeat ==
  \/ \E p \in Procs : LibCall(p)
  \/ Responses
  \/ EditSheet

SpecRepeat == InitRepeat /\ [][NextRepeat]_vars

\* the scheduled job: the module is run again and again with its default
\* options over a table that holds rows of earlier syncs, the sheet being
\* edited meanwhile
InitSchedule ==
  /\ InitEnv(MaxPasses)
  /\ store = <<OldRow("2"), OldRow("9")>>
  /\ InitPass({"A"})
  /\ NoMap

NextSchedule ==
  \/ \E p \in Procs : CliRun(p)
  \/ Responses
  \/ EditSheet

SpecSchedule == InitSchedule /\ [][NextSchedule]_vars

\* the scheduler and a manual trigger both request /api/sync-sheets: two
\* slots in which passes run at the same time
InitOverlap == InitEnv(MaxPasses) /\ InitPass({"A", "B"}) /\ NoMap

NextOverlap ==
  \/ \E p \in Procs : HttpSync(p)
  \/ Responses

SpecOverlap == InitOverlap /\ [][NextOverlap]_vars

\* overlapping runs of the scheduled job while the sheet is edited
InitStale == InitEnv(MaxPasses) /\ store = <<>> /\ InitPass({"A", "B"}) /\ NoMap

NextStale ==
  \/ \E p \in Procs : CliRun(p)
  \/ Responses
  \/ EditSheet

SpecStale == InitStale /\ [][NextStale]_vars

\* a pass without forceFullSync followed by one with it, the sheet unchanged
InitFlag == InitEnv(MaxPasses) /\ InitPass({"A", "B"}) /\ NoMap

NextFlag ==
  \/ \E p \in Procs : FlagCall(p)
  \/ Responses

SpecFlag == InitFlag /\ [][NextFlag]_vars

\* one programmatic invocation in a process where any of the environment
\* values may be missing
InitConfig ==
  /\ config \in SUBSET requiredEnvVars
  /\ sheet \in Sheets
  /\ sheetVer = 0
  /\ store \in InitialStores
  /\ now = 0
  /\ budget = 1
  /\ lastOk = NoPass
  /\ InitPass({"A"})
  /\ NoMap

NextConfig ==
  \/ \E p \in Procs : LibCall(p)
  \/ \E p \in Procs : ClientFailure(p)
  \/ Responses

SpecConfig == InitConfig /\ [][NextConfig]_vars

\* the mapper applied to every input of MapInputs
InitMap ==
  /\ config = requiredEnvVars
  /\ sheet = [tab |-> TRUE, rowCount |-> 1, header |-> <<>>, rows |-> <<>>]
  /\ sheetVer = 0
  /\ store = <<>>
  /\ now = 0
  /\ budget = 0
  /\ lastOk = NoPass
  /\ InitPass({})
  /\ mapIn \in MapInputs
  /\ mapOut = <<>>
  /\ dash = Unmounted

NextMap == MapApply

SpecMap == InitMap /\ [][NextMap]_vars

----------------------------------------------------------------------------
(* Properties *)

Last(q) == q[Len(q)]

Done(p)      == pc[p] = "done"
Returned(p)  == outcome[p].kind = "returned"
Threw(p)     == outcome[p].kind = "threw"
Succeeded(p) == Returned(p) /\ outcome[p].result.success
Failed(p)    == Returned(p) /\ ~outcome[p].result.success

Issued(p, op)   == \E i \in 1..Len(calls[p]) : calls[p][i].op = op
NumIssued(p, op) == Cardinality({i \in 1..Len(calls[p]) : calls[p][i].op = op})

\* the pass of slot p ended because a ranged data read threw
RangeReadThrew(p) ==
  /\ Done(p)
  /\ calls[p] # <<>>
  /\ Last(calls[p]).op = "range"
  /\ errCalls[p] = <<ErrApi>>

\* C1: a pass whose ranged data read threw, after any number of batches
\* that succeeded, has issued no upsert, has left the store as it was when
\* the pass started and has mapped and submitted none of the rows collected.
C1_AllOrNothingOnFetchFailure ==
  \A p \in Procs :
    RangeReadThrew(p) =>
      /\ ~Issued(p, "upsert")
      /\ store = storeAtStart[p]
      /\ leads[p] = <<>>
      /\ ~Succeeded(p)

\* a second ranged read threw after a first one had delivered rows, the
\* store holding rows of earlier syncs
C1_Witness ==
  \E p \in Procs :
    /\ RangeReadThrew(p)
    /\ NumIssued(p, "range") = 2
    /\ allData[p] # <<>>
    /\ store # <<>>

\* the header read of the pass of slot p yielded no rows
HeaderReadEmpty(p) ==
  /\ Done(p)
  /\ calls[p] = <<[op |-> "header"]>>
  /\ errCalls[p] # <<>>
  /\ errCalls[p][1] \in {ErrNoHeader, ErrTypeError}

\* C2: when the header read yields no rows, syncSheetsToSupabase returns a
\* result with success = false and has issued no write, no metadata read
\* and no ranged data read.
C2_NoHeaderFailsFast ==
  \A p \in Procs :
    HeaderReadEmpty(p) =>
      /\ Failed(p)
      /\ ~Issued(p, "upsert")
      /\ ~Issued(p, "meta")
      /\ ~Issued(p, "range")
      /\ store = storeAtStart[p]

\* C3: every error raised during a pass is passed to onError and comes back
\* as the returned result {success: false, syncStartTime, syncEndTime,
\* error}; nothing leaves syncSheetsToSupabase as a thrown exception.
C3_ErrorsBecomeResults ==
  \A p \in Procs :
    (Done(p) /\ calls[p] # <<>>) =>
      /\ ~Threw(p)
      /\ errCalls[p] # <<>> =>
           /\ Len(errCalls[p]) = 1
           /\ Failed(p)
           /\ outcome[p].result.error = errCalls[p][1]
           /\ outcome[p].result.syncStartTime = syncStartTime[p]
           /\ DOMAIN outcome[p].result =
                {"success", "syncStartTime", "syncEndTime", "error"}

\* record a with last_sync left out
SansLastSync(a) == [k \in DOMAIN a \ {"last_sync"} |-> a[k]]

SameExceptLastSync(xs, ys) ==
  /\ Len(xs) = Len(ys)
  /\ \A i \in 1..Len(xs) : SansLastSync(xs[i]) = SansLastSync(ys[i])

\* no two rows of the table carry the same sheet_row_id
OneRowPerId(table) ==
  \A i, j \in 1..Len(table) :
    i # j => table[i].sheet_row_id # table[j].sheet_row_id

\* the pass of slot p succeeded, as did the one before it, with the same
\* options and over the same, unedited sheet
SecondOfTwoPasses(p) ==
  /\ Done(p)
  /\ Succeeded(p)
  /\ prevOk[p] # NoPass
  /\ prevOk[p].ver = verAtStart[p]
  /\ sheetVer = verAtStart[p]
  /\ prevOk[p].opts = opts[p]

\* C4: two consecutive successful passes over the unchanged sheet make
\* records that agree in every field but last_sync, and after the second
\* the store holds one row per sheet_row_id.
C4_IdempotentUpsert ==
  \A p \in Procs :
    SecondOfTwoPasses(p) =>
      /\ SameExceptLastSync(prevOk[p].leads, leads[p])
      /\ OneRowPerId(store)

\* C5: run from the command line the module makes one pass and exits with
\* status 0 when the pass succeeded and with status 1 when it failed or threw.
C5_CliExitStatus ==
  \A p \in Procs :
    (Done(p) /\ entry[p] = "cli") =>
      /\ NumIssued(p, "header") = 1
      /\ Succeeded(p) => exitCode[p] = 0
      /\ (Failed(p) \/ Threw(p)) => exitCode[p] = 1

\* slot p served a GET or POST request
HttpServed(p) == Done(p) /\ entry[p] = "http" /\ method[p] \in {"GET", "POST"}

\* C6: to a GET or POST the route answers 200 with success = true and the
\* message "Successfully synced N leads", N = rowsProcessed, exactly when
\* the pass returned success = true; it answers 500 with {error: "Sync
\* failed", details} when the pass returned success = false and 500 with
\* {error: "Unexpected error during sync", message} when the call threw.
C6_HttpOutcome ==
  /\ \A p \in Procs :
       HttpServed(p) =>
         /\ httpRes[p].status = 200 <=> Succeeded(p)
         /\ Succeeded(p) =>
              /\ httpRes[p].body.success = TRUE
              /\ httpRes[p].body.rowsProcessed = Len(leads[p])
              /\ httpRes[p].body.message =
                   "Successfully synced " \o ToString(Len(leads[p])) \o " leads"
         /\ Failed(p) =>
              /\ httpRes[p].status = 500
              /\ httpRes[p].body =
                   [error |-> "Sync failed", details |-> errCalls[p][1]]
         /\ Threw(p) => httpRes[p].status = 500
  /\ \A e \in {ErrApi, ErrStore} :
       Respond([kind |-> "threw", error |-> e]) =
         [status |-> 500,
          body   |-> [error |-> "Unexpected error during sync", message |-> e]]

\* a GET or POST whose pass failed at the upsert, after rows were fetched
C6_Witness ==
  \E p \in Procs :
    /\ HttpServed(p)
    /\ Failed(p)
    /\ Issued(p, "upsert")
    /\ leads[p] # <<>>
    /\ httpRes[p].status = 500

\* C7: a request whose method is neither GET nor POST is answered 405 and
\* starts no pass: no read of the spreadsheet, no write to the store.
C7_MethodGate ==
  \A p \in Procs :
    (Done(p) /\ entry[p] = "http" /\ method[p] \notin {"GET", "POST"}) =>
      /\ httpRes[p].status = 405
      /\ calls[p] = <<>>
      /\ outcome[p] = NoOutcome
      /\ store = storeAtStart[p]

\* a PUT or DELETE was answered, the store holding rows of earlier syncs
C7_Witness ==
  \E p \in Procs :
    /\ Done(p)
    /\ entry[p] = "http"
    /\ method[p] \in {"PUT", "DELETE"}
    /\ httpRes[p].status = 405
    /\ store # <<>>

\* the mapper harness has applied mapSheetRowToLeadObject to a row no
\* longer than the header row
MappedShortRow ==
  /\ mapOut # <<>>
  /\ Len(mapIn.dataRow) <= Len(mapIn.headerRow)

FixedKeys == {"sheet_row_id", "last_sync"}

NormalizedNames(hRow) == { fieldName(hRow[k]) : k \in 1..Len(hRow) }

CellOrNull(dataRow, k) == IF k <= Len(dataRow) THEN dataRow[k] ELSE Null

\* the last column of hRow whose header normalizes like that of column k
LastColumnNamedLike(hRow, k) ==
  CHOOSE j \in k..Len(hRow) :
    /\ fieldName(hRow[j]) = fieldName(hRow[k])
    /\ \A i \in (j + 1)..Len(hRow) : fieldName(hRow[i]) # fieldName(hRow[k])

\* C8, as claimed: for |R| <= |H| the record's sheet-derived keys are the
\* normalized names of H and the value at key normalize(H[k]) is R[k] for
\* k < |R| and null for k >= |R|.
C8_RowMappingPositional ==
  MappedShortRow =>
    /\ DOMAIN mapOut[1] = NormalizedNames(mapIn.headerRow) \cup FixedKeys
    /\ \A k \in 1..Len(mapIn.headerRow) :
         mapOut[1][fieldName(mapIn.headerRow[k])] = CellOrNull(mapIn.dataRow, k)

\* C8, amended: for |R| <= |H| the record's sheet-derived keys are the
\* normalized names of H ("Full Name" gives full_name, a run of whitespace
\* one underscore) and the value at key normalize(H[k]) is the cell, or null
\* beyond |R|, of the last column whose header normalizes to that key.
C8_RowMappingLastColumnWins ==
  /\ fieldName(HFullName) = "full_name"
  /\ fieldName(HFullNameWide) = "full_name"
  /\ fieldName(HEmail) = "email"
  /\ MappedShortRow =>
       /\ DOMAIN mapOut[1] = NormalizedNames(mapIn.headerRow) \cup FixedKeys
       /\ \A k \in 1..Len(mapIn.headerRow) :
            mapOut[1][fieldName(mapIn.headerRow[k])] =
              CellOrNull(mapIn.dataRow, LastColumnNamedLike(mapIn.headerRow, k))

\* a ragged row mapped against two headers that normalize to one name
C8_Witness ==
  /\ MappedShortRow
  /\ mapIn.headerRow = <<HFullName, HFullNameWide>>
  /\ mapIn.dataRow = <<"a">>
  /\ mapOut[1].full_name = Null

\* the pass of slot p has mapped the rows it fetched
Mapped(p) == Issued(p, "upsert")

\* the two ranged reads of the example: rows 2 and 3, one row each
ReadInTwoBatchesOfOne(p) ==
  /\ opts[p].batchSize = 1
  /\ calls[p] = <<[op |-> "header"], [op |-> "meta"], RangeCall(2, 2),
                  RangeCall(3, 3), [op |-> "upsert", n |-> 2]>>

\* C9: every fetched data row gets sheet_row_id = String(its absolute
\* 1-based sheet row), whichever batch returned it; the sheet
\* [[Name, Email], [a, b], [b, a]] read in two batches of size 1 gives the
\* two records {name: a, email: b, sheet_row_id: "2"} and
\* {name: b, email: a, sheet_row_id: "3"}.
C9_RowIdentity ==
  \A p \in Procs :
    Mapped(p) =>
      /\ Len(leads[p]) = Len(allData[p])
      /\ \A i \in 1..Len(leads[p]) :
           LET r == allData[p][i].rowIndex
           IN  /\ r \in 2..(Len(sheet.rows) + 1)
               /\ allData[p][i].dataRow = sheet.rows[r - 1]
               /\ leads[p][i].sheet_row_id = String(r)
      /\ ( /\ sheet.header = <<HName, HEmail>>
           /\ sheet.rows = << <<"a", "b">>, <<"b", "a">> >>
           /\ ReadInTwoBatchesOfOne(p) )
         => /\ Len(leads[p]) = 2
            /\ SansLastSync(leads[p][1]) =
                 [name |-> "a", email |-> "b", sheet_row_id |-> "2"]
            /\ SansLastSync(leads[p][2]) =
                 [name |-> "b", email |-> "a", sheet_row_id |-> "3"]

\* C10: every record of a pass carries last_sync = the pass's start time,
\* the syncStartTime of its result.
C10_LastSyncIsPassStart ==
  \A p \in Procs :
    Mapped(p) =>
      /\ \A i \in 1..Len(leads[p]) : leads[p][i].last_sync = syncStartTime[p]
      /\ Succeeded(p) => outcome[p].result.syncStartTime = syncStartTime[p]

\* the ranged reads the pass of slot p has issued, in order
RangeCalls(p) == SelectSeq(calls[p], LAMBDA c : c.op = "range")

\* the sheet is not edited in Spec, so a read can be replayed: it came back
\* with no row
ReturnedZeroRows(c) == ~RangeValues(sheet, c.from, c.to).defined

\* C11: the ranged reads are successive ranges of width batchSize starting
\* at row 2, and when no read returned zero rows every row position from 2
\* up to and including the declared row count is covered by exactly one
\* ranged read.
C11_FetchLoopCoverage ==
  \A p \in Procs :
    Mapped(p) =>
      LET rs == RangeCalls(p)
      IN  /\ \A i \in 1..Len(rs) :
               /\ rs[i].from = 2 + (i - 1) * opts[p].batchSize
               /\ rs[i].to = Min(rs[i].from + opts[p].batchSize - 1, totalRows[p])
          /\ (\A i \in 1..Len(rs) : ~ReturnedZeroRows(rs[i]))
               => \A r \in 2..totalRows[p] :
                    Cardinality({ i \in 1..Len(rs) :
                                    rs[i].from <= r /\ r <= rs[i].to }) = 1

\* the sheet_row_id values present in a table
StoredIds(table) == { table[i].sheet_row_id : i \in 1..Len(table) }

\* the sheet_row_id values of the records a pass writes
WrittenIds(payload) == { payload[i].sheet_row_id : i \in 1..Len(payload) }

\* C12: no step of any pass, successful or failed, and no edit of the sheet
\* removes a sheet_row_id from the store or a row from the table, and a
\* record that the current write does not address (its source row is gone)
\* keeps its values.
C12_NeverDeleted ==
  [][ /\ StoredIds(store) \subseteq StoredIds(store')
      /\ Len(store) <= Len(store')
      /\ \A i \in 1..Len(store) :
           \/ store'[i] = store[i]
           \/ \E p \in Procs :
                /\ pc[p] = "write"
                /\ store[i].sheet_row_id \in WrittenIds(leads[p]) ]_vars

\* the record of sheet row 9, a row the sheet no longer has, is still there
\* unchanged after a pass wrote other records, the sheet having been edited
C12_Witness ==
  /\ Succeeded("A")
  /\ leads["A"] # <<>>
  /\ sheetVer > 0
  /\ \E i \in 1..Len(store) : store[i] = OldRow("9")

\* a pass ran in each slot, neither had written when the other began, and
\* both returned success
BothSucceeded ==
  /\ \A p \in Procs : Done(p) /\ Succeeded(p)
  /\ storeAtStart["A"] = storeAtStart["B"]

\* the record with key id in a payload
LeadWith(payload, id) ==
  payload[CHOOSE i \in 1..Len(payload) : payload[i].sheet_row_id = id]

\* C13: when two passes overlap and both complete, for every sheet_row_id
\* written by both the stored record carries the values of the pass whose
\* upsert was applied last, and the store holds one record per sheet_row_id.
C13_OverlapLastWriteWins ==
  BothSucceeded =>
    /\ OneRowPerId(store)
    /\ \A id \in WrittenIds(leads["A"]) \cap WrittenIds(leads["B"]) :
         LET lead == LeadWith(lastOk.leads, id)
             row  == store[RowWith(store, id)]
         IN  \A k \in DOMAIN lead : row[k] = lead[k]

\* the pass of slot p ended at the metadata read, whose answer did not
\* hold the tab: find(...) gave undefined
TabMissingInMetadata(p) ==
  /\ Done(p)
  /\ calls[p] # <<>>
  /\ Last(calls[p]).op = "meta"
  /\ errCalls[p] = <<ErrTypeError>>

\* C14: when the tab is absent from the spreadsheet metadata the pass issues
\* no ranged data read and no write, and syncSheetsToSupabase returns a
\* result with success = false.
C14_MissingTabFails ==
  \A p \in Procs :
    TabMissingInMetadata(p) =>
      /\ ~Issued(p, "range")
      /\ ~Issued(p, "upsert")
      /\ store = storeAtStart[p]
      /\ Failed(p)

\* the pass of slot p ended because the upsert reported an error
UpsertFailed(p) ==
  /\ Done(p)
  /\ calls[p] # <<>>
  /\ Last(calls[p]).op = "upsert"
  /\ errCalls[p] = <<ErrStore>>

\* C15: when the upsert reports an error syncSheetsToSupabase returns a
\* result with success = false and no rowsProcessed, and the store is as it
\* was before the pass.
C15_StoreWriteFailure ==
  \A p \in Procs :
    UpsertFailed(p) =>
      /\ Failed(p)
      /\ "rowsProcessed" \notin DOMAIN outcome[p].result
      /\ outcome[p].result.error = ErrStore
      /\ store = storeAtStart[p]

\* the result of a pass with its two timestamps left out
SansTimes(o) ==
  IF o.kind = "returned"
    THEN [kind   |-> o.kind,
          result |-> [k \in DOMAIN o.result \ {"syncStartTime", "syncEndTime"} |->
                        o.result[k]]]
    ELSE o

\* the passes of "A" (forceFullSync = false) and "B" (forceFullSync = true)
\* ended, the environment having failed the same call of both or none and
\* the callback having done the same
SameEnvironment ==
  /\ Done("A") /\ Done("B")
  /\ opts["B"] = [opts["A"] EXCEPT !.forceFullSync = TRUE]
  /\ errCalls["A"] = errCalls["B"]
  /\ errCalls["A"] # <<>> => Len(calls["A"]) = Len(calls["B"])
  /\ outcome["A"].kind = outcome["B"].kind

C17_OnErrorNoControlFlow ==
  \A p \in Procs :
    Done(p) /\ entry[p] = "lib" /\ calls[p] # <<>> =>
      /\ Succeeded(p) => errCalls[p] = <<>>
      /\ ~Succeeded(p) =>
           /\ Len(errCalls[p]) = 1
           /\ Failed(p)
           /\ outcome[p].result.error = errCalls[p][1]

\* the number of rows the ranged reads cs returned (the sheet is not edited
\* in Spec, so a read can be replayed)
RECURSIVE RowsFetched(_)
RowsFetched(cs) ==
  IF cs = <<>> THEN 0
  ELSE Len(RangeValues(sheet, Head(cs).from, Head(cs).to).values)
         + RowsFetched(Tail(cs))

\* C18: a successful pass has issued exactly one upsert, as its last call,
\* holding one record per fetched row whatever batchSize was, and
\* rowsProcessed is the number of records of that request.
C18_SingleBulkWrite ==
  \A p \in Procs :
    Succeeded(p) =>
      /\ NumIssued(p, "upsert") = 1
      /\ Last(calls[p]).op = "upsert"
      /\ Last(calls[p]).n = Len(leads[p])
      /\ Len(leads[p]) = RowsFetched(RangeCalls(p))
      /\ \A i \in 1..Len(leads[p]) :
           leads[p][i] \in { mapSheetRowToLeadObject(allData[p][i].headerRow,
                               allData[p][i].dataRow, allData[p][i].rowIndex, t) :
                             t \in 0..MaxTime }
      /\ outcome[p].result.rowsProcessed = Len(leads[p])

\* two rows fetched in two reads of one row each and written in one request
C18_Witness ==
  /\ Succeeded("A")
  /\ opts["A"].batchSize = 1
  /\ NumIssued("A", "range") = 2
  /\ Last(calls["A"]) = [op |-> "upsert", n |-> 2]
  /\ outcome["A"].result.rowsProcessed = 2

\* where a pass waits for the answer to a call
PcOf(op) ==
  CASE op = "header" -> "header"
    [] op = "meta"   -> "meta"
    [] op = "range"  -> "batch"
    [] op = "upsert" -> "write"

\* header read, metadata read, ranged reads in ascending row order, one write
WellOrdered(cs) ==
  \A i \in 1..Len(cs) :
    /\ i = 1 <=> cs[i].op = "header"
    /\ i = 2 <=> cs[i].op = "meta"
    /\ cs[i].op = "upsert" => i = Len(cs)
    /\ cs[i].op = "range" =>
         /\ cs[i].from <= cs[i].to
         /\ IF cs[i - 1].op = "range"
              THEN cs[i].from = cs[i - 1].to + 1
              ELSE cs[i].from = 2

\* the only call that can be unanswered is the last one issued
OneInFlight(p) ==
  /\ pc[p] \in {"header", "meta", "batch", "write"} =>
       calls[p] # <<>> /\ pc[p] = PcOf(Last(calls[p]).op)
  /\ pc[p] \in {"idle", "done", "off"} =>
       (calls[p] # <<>> => outcome[p] # NoOutcome)

\* a call is issued when a pass starts or in the step that takes the answer
\* to the call before it
IssuedAfterAnswer(p) ==
  calls'[p] # calls[p] =>
    \/ pc[p] \in {"idle", "done"} /\ Len(calls'[p]) <= 1
    \/ /\ calls[p] # <<>>
       /\ pc[p] = PcOf(Last(calls[p]).op)
       /\ Len(calls'[p]) = Len(calls[p]) + 1
       /\ SubSeq(calls'[p], 1, Len(calls[p])) = calls[p]

\* C19: the calls of a pass are the header read, the metadata read, the
\* ranged reads in ascending row order and then one write; each is issued
\* only once the one before it has been answered, so that no two calls of
\* a pass are in flight at once.
C19_StrictCallOrder ==
  /\ [](\A p \in Procs : WellOrdered(calls[p]) /\ OneInFlight(p))
  /\ [][\A p \in Procs : IssuedAfterAnswer(p)]_vars

\* a pass that made all four kinds of call, the ranged read twice
C19_Witness ==
  /\ Done("A")
  /\ ReadInTwoBatchesOfOne("A")
  /\ WellOrdered(calls["A"])

\* no request of the pass was sent twice
NoCallRepeated(cs) ==
  \A i, j \in 1..Len(cs) : i # j => cs[i] # cs[j]

\* C20: within one pass the header read, the metadata read, each row range
\* and the upsert are requested at most once, the pass ends with its first
\* failure, and no call is issued after it.
C20_NoRetry ==
  /\ [](\A p \in Procs :
          /\ NoCallRepeated(calls[p])
          /\ NumIssued(p, "header") <= 1
          /\ NumIssued(p, "meta") <= 1
          /\ NumIssued(p, "upsert") <= 1
          /\ errCalls[p] # <<>> => Done(p) /\ Len(errCalls[p]) = 1)
  /\ [][\A p \in Procs :
          errCalls[p] # <<>> /\ calls'[p] # calls[p] => Len(calls'[p]) <= 1]_vars

\* the upsert failed and the pass ended without asking again
C20_Witness ==
  /\ Done("A")
  /\ errCalls["A"] = <<ErrStore>>
  /\ NumIssued("A", "upsert") = 1
  /\ NumIssued("A", "range") >= 1

\* the field names of the headers the last successful pass before that of
\* slot p had and the pass of slot p has no more
DroppedFields(p) ==
  IF prevOk[p] = NoPass THEN {}
  ELSE NormalizedNames(prevOk[p].header) \ NormalizedNames(headerRow[p])

\* no record of the pass of slot p has key k, and every record that was in
\* the store when the pass began has kept its value of k
FieldLeftAlone(p, k) ==
  /\ \A i \in 1..Len(leads[p]) : k \notin DOMAIN leads[p][i]
  /\ \A i \in 1..Len(storeAtStart[p]) :
       k \in DOMAIN storeAtStart[p][i] =>
         /\ k \in DOMAIN store[i]
         /\ store[i][k] = storeAtStart[p][i][k]

C22_MissingConfiguration ==
  config # requiredEnvVars =>
    /\ ~LoadModule(config).threw
    /\ LoadModule(config).logged # {}
    /\ \A p \in Procs :
         Done(p) =>
           /\ Failed(p)
           /\ ~(SheetsClientMade(config) /\ SheetsRequestAccepted(config)) =>
                /\ ~Issued(p, "upsert")
                /\ store = storeAtStart[p]

\* the pass of slot p succeeded, as did the one before it, over the same,
\* unedited sheet, whatever batchSize each had
TwoPassesOverSameSheet(p) ==
  /\ Done(p)
  /\ Succeeded(p)
  /\ prevOk[p] # NoPass
  /\ prevOk[p].ver = verAtStart[p]
  /\ sheetVer = verAtStart[p]

\* the records of a payload, last_sync apart, as a set
RecordSet(payload) == { SansLastSync(payload[i]) : i \in 1..Len(payload) }

\* C23: over a fixed sheet two successful passes submit the same set of
\* records (same sheet_row_id values, same field values) whatever their
\* batchSize values are.
C23_BatchSizeIndependent ==
  \A p \in Procs :
    TwoPassesOverSameSheet(p) =>
      RecordSet(prevOk[p].leads) = RecordSet(leads[p])

\* pass a fetched the sheet, the sheet was edited, pass b started, and both
\* passes returned success
StaleScenario(a, b) ==
  /\ Done(a) /\ Succeeded(a)
  /\ Done(b) /\ Succeeded(b)
  /\ verAtFetch[a] >= 0
  /\ verAtFetch[a] < verAtStart[b]

\* the store has a record with key id that carries every value of the
\* payload's record with that key
HoldsValuesOf(id, payload) ==
  \E i \in 1..Len(store) :
    /\ store[i].sheet_row_id = id
    /\ \A k \in DOMAIN LeadWith(payload, id) : store[i][k] = LeadWith(payload, id)[k]

WrittenByBoth(a, b) == WrittenIds(leads[a]) \cap WrittenIds(leads[b])

\* C24, as claimed: once both passes have completed the store holds the
\* values of the later pass b for every sheet_row_id both wrote, whatever
\* the order of the two upserts.
C24_NewerValuesWin ==
  \A a, b \in Procs :
    StaleScenario(a, b) =>
      \A id \in WrittenByBoth(a, b) : HoldsValuesOf(id, leads[b])

\* C24, amended: the store holds, for every sheet_row_id both wrote, the
\* values of the pass whose upsert was applied last: those of b when b wrote
\* last, the stale ones of a when a wrote last.
C24_LastAppliedWins ==
  \A a, b \in Procs :
    StaleScenario(a, b) =>
      /\ lastOk.leads \in {leads[a], leads[b]}
      /\ \A id \in WrittenByBoth(a, b) : HoldsValuesOf(id, lastOk.leads)

\* the upsert of the earlier pass was applied last and put its stale
\* values back over the newer ones
C24_Witness ==
  /\ StaleScenario("A", "B")
  /\ lastOk.leads = leads["A"]
  /\ \E id \in WrittenByBoth("A", "B") :
       /\ SansLastSync(LeadWith(leads["A"], id)) # SansLastSync(LeadWith(leads["B"], id))
       /\ HoldsValuesOf(id, leads["A"])
       /\ ~HoldsValuesOf(id, leads["B"])

\* the mapper harness has applied mapSheetRowToLeadObject
MapperApplied == mapOut # <<>>

\* C25: the record made from any header row, data row and row index has
\* sheet_row_id = String(rowIndex) and the last_sync the mapper set, also
\* when a header normalizes to sheet_row_id or last_sync.
C25_FixedFieldsKept ==
  MapperApplied =>
    /\ mapOut[1].sheet_row_id = String(mapIn.rowIndex)
    /\ mapOut[1].last_sync = toISOString(mapIn.time)

\* C29: headers that normalize to one field name share one key, whose value
\* is the cell of the last such column (null beyond the row's length), and
\* cells beyond the header row are dropped: every key of the record is the
\* normalized name of a header or one of the two fixed keys.
C29_CollisionsAndLongRows ==
  MapperApplied =>
    /\ DOMAIN mapOut[1] = NormalizedNames(mapIn.headerRow) \cup FixedKeys
    /\ \A j, k \in 1..Len(mapIn.headerRow) :
         (j < k /\ fieldName(mapIn.headerRow[j]) = fieldName(mapIn.headerRow[k])
            /\ \A i \in (k + 1)..Len(mapIn.headerRow) :
                 fieldName(mapIn.headerRow[i]) # fieldName(mapIn.headerRow[k]))
         => mapOut[1][fieldName(mapIn.headerRow[j])] = CellOrNull(mapIn.dataRow, k)

\* two headers normalizing to full_name mapped against a row of three cells
C29_Witness ==
  /\ MapperApplied
  /\ mapIn.headerRow = <<HFullName, HFullNameWide>>
  /\ mapIn.dataRow = <<"a", "b", "a">>
  /\ mapOut[1].full_name = "b"
  /\ DOMAIN mapOut[1] = {"full_name"} \cup FixedKeys

\* C26: the ranged reads of a pass cover contiguous ascending ranges that
\* start at row 2 and end at or before the declared row count, so the
\* records of the one upsert are in ascending row order and have pairwise
\* distinct sheet_row_id values.
C26_DistinctIdsInPass ==
  \A p \in Procs :
    Mapped(p) =>
      LET rs == RangeCalls(p)
      IN  /\ \A i \in 1..Len(rs) :
               /\ rs[i].from = IF i = 1 THEN 2 ELSE rs[i - 1].to + 1
               /\ rs[i].from <= rs[i].to
               /\ rs[i].to <= totalRows[p]
          /\ \A i, j \in 1..Len(leads[p]) :
               i < j => /\ allData[p][i].rowIndex < allData[p][j].rowIndex
                        /\ leads[p][i].sheet_row_id # leads[p][j].sheet_row_id

\* ---------------------------------------------------------------------
\* Termination.  Every network call of a pass is answered: whenever a
\* request is in flight its response, a value or an error, is eventually
\* delivered to the awaiting pass.
SpecAnswered == Spec /\ WF_vars(Responses)

\* the most ranged reads the loop for (startRow = 2; startRow < T;
\* startRow += batchSize) can issue
MaxRangedReads(T, batchSize) ==
  IF T <= 2 THEN 0 ELSE (T - 2 + batchSize - 1) \div batchSize

ReadsWithinBound ==
  \A p \in Procs :
    NumIssued(p, "range") <= MaxRangedReads(totalRows[p], opts[p].batchSize)

\* C27: the fetch loop issues at most ceil((T - 2) / batchSize) ranged
\* reads, none when T <= 2, and when every network call is answered a pass
\* that was started eventually returns a result.
C27_Terminates ==
  /\ []ReadsWithinBound
  /\ \A p \in Procs : (pc[p] \notin {"off", "idle"}) ~> Returned(p)

\* the fetch of pass p returned with no data rows collected
FetchedNothing(p) == verAtFetch[p] # -1 /\ allData[p] = <<>>

C28_WitnessNoRange ==
  /\ FetchedNothing("A")
  /\ NumIssued("A", "range") = 0
  /\ Succeeded("A")

\* ---------------------------------------------------------------------
\* The dashboard over a table that a sync pass fills meanwhile: the table
\* starts with some rows of earlier syncs, and one run of the module upserts
\* the two rows of the sheet.
StoredCounts == {0, 9, 10, 20}

StoredRows(n) == [i \in 1..n |-> OldRow(String(100 + i))]

InitDashboard ==
  /\ config = requiredEnvVars
  /\ sheet = [tab |-> TRUE, rowCount |-> 3, header |-> <<HName, HEmail>>,
              rows |-> << <<"a", "b">>, <<"b", "a">> >>]
  /\ sheetVer = 0
  /\ store \in {StoredRows(n) : n \in StoredCounts}
  /\ now = 0
  /\ budget = 1
  /\ lastOk = NoPass
  /\ InitPass({"A"})
  /\ mapIn = IdleMap
  /\ mapOut = <<>>
  /\ dash = Unmounted

NextDashboard ==
  \/ Mount
  \/ ClickPrevious
  \/ ClickNext
  \/ FetchLeadsResponse
  \/ \E p \in Procs : CliRun(p)
  \/ Responses

SpecDashboard == InitDashboard /\ [][NextDashboard]_vars

\* what holds of the pending fetch and of loading
FetchesWellFormed ==
  /\ dash.request.pending =>
       /\ dash.request.from = (dash.pagination.page - 1) * dash.pagination.pageSize
       /\ dash.request.to = dash.pagination.page * dash.pagination.pageSize - 1
  /\ (dash.mounted /\ ~dash.request.pending) => ~dash.loading

\* C30 (as stated): the page is never below 1 and never above the page
\* count ceil(totalCount / pageSize) of the latest completed fetch, every
\* fetch requests rows (page-1)*pageSize .. page*pageSize - 1, and every
\* fetch ends with loading = false.
C30_PageWithinPageCount ==
  /\ dash.pagination.page >= 1
  /\ dash.lastCount # -1 =>
       dash.pagination.page <= Ceil(dash.lastCount, dash.pagination.pageSize)
  /\ FetchesWellFormed

\* C30 (amended): as above, the page never being above the page count of
\* the latest completed fetch or above 1, whichever is larger: over an
\* empty table the page count is 0 and the page stays 1.
C30_PageWithinBounds ==
  /\ dash.pagination.page >= 1
  /\ dash.lastCount # -1 =>
       /\ dash.pagination.totalCount = dash.lastCount
       /\ dash.pagination.page <= IF dash.lastCount = 0 THEN 1
                                  ELSE Ceil(dash.lastCount, dash.pagination.pageSize)
  /\ FetchesWellFormed

\* the last of three pages, reached by Next, has been fetched and shown
C30_Witness ==
  /\ dash.pagination.page = 3
  /\ dash.lastCount = 22
  /\ Len(dash.leads) = 2
  /\ ~dash.loading
  /\ NextDisabled(dash)

====
